---- MODULE Spec2Model ----
(***************************************************************************)
(* Model of satviz/scripts/visualize_path_wise_utilization.py: the script   *)
(* reads the path-change file, resolves the path active at GEN_TIME, reads  *)
(* the utilization log into time_wise_util, renders the coloured links of   *)
(* the resolved path and hands the scene to util.write_viz_files.           *)
(*                                                                          *)
(* Conventions.                                                             *)
(*  - Python sequences are 0-based; At(s, i) reads s[i].                    *)
(*  - A utilization value u is held as the integer u * UDen.  On UtilGrid   *)
(*    (multiples of 1/64 and of 1/10) the IEEE-double evaluation of lines   *)
(*    220-226 coincides with the exact arithmetic used here.                *)
(*  - link_width is held as the integer link_width * UDen.                  *)
(*  - viz_string holds only the utilization-coloured links; satellite       *)
(*    markers and orbit links (lines 184-205) come from collaborators       *)
(*    (ephem, util) and never read or write the state modelled here.        *)
(*  - The ground-station step (lines 207-210) is modelled by its effect on  *)
(*    OUT_HTML_FILE with the satellite count NUM_ORBS*NUM_SATS_PER_ORB      *)
(*    taken as the integer the metadata collaborator expects and with       *)
(*    city_details total.  With the Telesat block active (lines 84-106:     *)
(*    NUM_ORBS and NUM_SATS_PER_ORB are lists) that product raises          *)
(*    TypeError at line 208 for every non-empty SEL_PATH; the model does    *)
(*    not represent that failure.                                           *)
(***************************************************************************)
EXTENDS Integers, Sequences, FiniteSets, TLC

\* ------------------------------------------------------------------ bounds

\* Lines read from path_file (PathSpec).
MaxEvents == 2
\* Longest path in a path_file line.
MaxPathLen == 5
\* Lines read from IN_UTIL_FILE (IngestSpec).
MaxSamples == 2
\* Lines read from path_file and from IN_UTIL_FILE in a whole run (Spec).
RunMaxEvents == 1
RunMaxSamples == 2

\* --------------------------------------------------------------- constants

UTIL_INTERVAL == 100

\* start_next before the try (line 153).  The program's value, 99999999999,
\* exceeds the integers of the model checker; every time of the model lies
\* below this one as every time of a run lies below the program's.
FarFuture == 2147483647

\* Denominator of utilization and link_width values.
UDen == 64 * 5

U(num, den) == (num * UDen) \div den

\* ----------------------------------------------------------------- inputs

\* Node ids: GsA and GsB are the ground stations of the pair, SatA and SatB
\* satellites.
GsA == 8 + 1
SatA == 8 + 2
SatB == 8 + 3
GsB == 8 + 4

RECURSIVE Alternating(_, _)
\* The satellite sequence of length n that starts at first and alternates.
Alternating(first, n) ==
    IF n = 0 THEN <<>>
    ELSE <<first>> \o Alternating(IF first = SatA THEN SatB ELSE SatA, n - 1)

\* The node lists a path_file line may hold: GsA, satellites, GsB.
PathsUpTo(maxLen) ==
    { <<GsA>> \o Alternating(first, n) \o <<GsB>> :
        first \in {SatA, SatB}, n \in 0..(maxLen - 2) }

Paths == PathsUpTo(MaxPathLen)

\* Change times of path_file lines, in nanoseconds: 0 ms, 99.5 ms, 149.5 ms,
\* 150.5 ms.
PathTimesNs == {0, 99500000, 149500000, 150500000}
RunPathTimesNs == {0}

\* GEN_TIME, in milliseconds.
QueryTimes == {100, 150, 200}

\* Fields of IN_UTIL_FILE lines: nanosecond times and utilization values.
SampleStartsNs == {0, 50500000}
SampleEndsNs == {50500000, 200000000, 249500000, 300000000}
SampleUtils == {U(3, 10), U(8, 10), U(12, 10)}
RunSampleStartsNs == {0, 50500000}
RunSampleEndsNs == {200000000}
RunSampleUtils == {U(3, 10), U(8, 10)}

Samples(starts, ends, utils) ==
    { v \in [src : {SatA, SatB}, dst : {SatA, SatB}, start_ns : starts,
             end_ns : ends, utilization : utils] : v.src # v.dst }

\* Utilization values handed to the encoder (EncSpec): 0 .. 1.5.
UtilGrid == { k \in 0..(UDen + UDen \div 2) : k % 5 = 0 \/ k % 32 = 0 }

\* ---------------------------------------------------------------- helpers

At(s, i) == s[i + 1]

Range(s) == { s[i] : i \in DOMAIN s }

\* Python's round(n / d) for d > 0: to nearest, ties to even.
RoundHalfEven(n, d) ==
    LET q == n \div d
        r == n % d
    IN  IF 2 * r < d THEN q
        ELSE IF 2 * r > d THEN q + 1
        ELSE IF q % 2 = 0 THEN q ELSE q + 1

\* round(ns / 1000000)
RoundMs(ns) == RoundHalfEven(ns, 1000000)

\* ------------------------------------------------------------------ state

VARIABLES
    pc,              \* position in the script
    err,             \* the exception that ended the run, "" if none
    GEN_TIME,        \* line 114
    paths_over_time, \* line 129: sequence of <<change_time_ns, nodes>>
    SEL_PATH_TIME,   \* line 149
    SEL_PATH,        \* line 150
    time_wise_util,  \* line 130: <<src, dst, start, end>> -> utilization
    val,             \* the IN_UTIL_FILE line last parsed (lines 168-172)
    stored,          \* the keys written for that line, in order (line 178)
    nLines,          \* lines read from the file being read
    p,               \* line 206
    utilization,     \* lines 173 and 217
    enc,             \* link_width, red_weight, green_weight, hex_col
    viz_string,      \* the coloured links appended at lines 229-239
    OUT_HTML_FILE,   \* the parts appended to line 125's name
    written          \* util.write_viz_files was called (line 258)

vars == <<pc, err, GEN_TIME, paths_over_time, SEL_PATH_TIME, SEL_PATH,
          time_wise_util, val, stored, nLines, p, utilization, enc,
          viz_string, OUT_HTML_FILE, written>>

NoLine == [src |-> 0, dst |-> 0, start_ms |-> 0, end_ms |-> 0]
NoEnc == [link_width |-> 0, red_weight |-> 0, green_weight |-> 0,
          hex_col |-> <<>>]
EmptyUtil == [k \in {} |-> 0]

\* The module's globals before generate_utilization_at_time runs.
Init ==
    /\ pc = "read_paths"
    /\ err = ""
    /\ GEN_TIME \in QueryTimes
    /\ paths_over_time = <<>>
    /\ SEL_PATH_TIME = 0
    /\ SEL_PATH = <<>>
    /\ time_wise_util = EmptyUtil
    /\ val = NoLine
    /\ stored = <<>>
    /\ nLines = 0
    /\ p = 0
    /\ utilization = 0
    /\ enc = NoEnc
    /\ viz_string = <<>>
    /\ OUT_HTML_FILE = <<>>
    /\ written = FALSE

\* ------------------------------------------------------------- path phase

\* Lines 144-147: one line of path_file.
ReadPathLine(times, paths, max) ==
    /\ pc = "read_paths"
    /\ nLines < max
    /\ \E t \in times, nodes \in paths :
          paths_over_time' = Append(paths_over_time, <<t, nodes>>)
    /\ nLines' = nLines + 1
    /\ UNCHANGED <<pc, err, GEN_TIME, SEL_PATH_TIME, SEL_PATH, time_wise_util,
                   val, stored, p, utilization, enc, viz_string,
                   OUT_HTML_FILE, written>>

\* Line 148: the nodes of the last line read, again, at time 0.
WithSentinel(pot) == Append(pot, <<0, At(pot, Len(pot) - 1)[2]>>)

\* Covers with the interval open at its start.
Covers_OpenStart(q, start_ms, start_next) == q > start_ms /\ q < start_next

\* Line 159.
Covers(q, start_ms, start_next) == q >= start_ms /\ q < start_next

\* Lines 155-157: the next entry's start, or line 153's value when
\* paths_over_time[i + 1] raises IndexError.
StartNext(pot, i) ==
    IF i + 1 < Len(pot) THEN RoundMs(At(pot, i + 1)[1]) ELSE FarFuture

RECURSIVE ResolveFrom(_, _, _)
\* Lines 149-162, from index i on: the first entry whose interval covers q.
ResolveFrom(pot, q, i) ==
    IF i >= Len(pot) THEN [time |-> 0, path |-> <<>>]
    ELSE IF Covers(q, RoundMs(At(pot, i)[1]), StartNext(pot, i))
         THEN [time |-> At(pot, i)[1], path |-> At(pot, i)[2]]
         ELSE ResolveFrom(pot, q, i + 1)

\* Lines 148-163 after the last line of path_file.  With no line read,
\* `nodes` is unbound at line 148 and the run ends with NameError.
EndPathFile ==
    /\ pc = "read_paths"
    /\ IF paths_over_time = <<>>
       THEN /\ pc' = "error"
            /\ err' = "NameError"
            /\ UNCHANGED <<paths_over_time, SEL_PATH_TIME, SEL_PATH, nLines>>
       ELSE LET pot == WithSentinel(paths_over_time)
                sel == ResolveFrom(pot, GEN_TIME, 0)
            IN  /\ paths_over_time' = pot
                /\ SEL_PATH_TIME' = sel.time
                /\ SEL_PATH' = sel.path
                /\ pc' = "read_util"
                /\ nLines' = 0
                /\ err' = err
    /\ UNCHANGED <<GEN_TIME, time_wise_util, val, stored, p, utilization, enc,
                   viz_string, OUT_HTML_FILE, written>>

NextPath ==
    \/ ReadPathLine(PathTimesNs, Paths, MaxEvents)
    \/ EndPathFile

\* Lines 143-163 alone, over every path_file of the bounds.
PathSpec == Init /\ [][NextPath]_vars

\* ----------------------------------------------------------- ingest phase

\* MoreBuckets stopping before a bucket that would end after end_ms.
MoreBuckets_FullOnly(interval, start_ms, end_ms) ==
    interval + UTIL_INTERVAL <= end_ms - start_ms

\* Line 177.
MoreBuckets(interval, start_ms, end_ms) == interval < end_ms - start_ms

\* BucketKey with the bucket's end taken from the offset alone.
BucketKey_EndFromOffset(src, dst, start_ms, interval) ==
    <<src, dst, start_ms + interval, interval + UTIL_INTERVAL>>

\* Line 178: the key written at offset `interval`.
BucketKey(src, dst, start_ms, interval) ==
    <<src, dst, start_ms + interval, start_ms + interval + UTIL_INTERVAL>>

RECURSIVE BucketKeys(_, _, _, _, _)
\* Lines 176-179: the keys the while loop writes from `interval` on, in order.
BucketKeys(src, dst, start_ms, end_ms, interval) ==
    IF MoreBuckets(interval, start_ms, end_ms)
    THEN <<BucketKey(src, dst, start_ms, interval)>>
         \o BucketKeys(src, dst, start_ms, end_ms, interval + UTIL_INTERVAL)
    ELSE <<>>

\* Line 178 for every key of keys: the dictionary after the assignments.
Store(twu, keys, u) ==
    [k \in DOMAIN twu \cup Range(keys) |->
        IF k \in Range(keys) THEN u ELSE twu[k]]

\* Lines 167-179: one line of IN_UTIL_FILE.  Lines 174-175 construct a
\* SystemError and drop it (there is no `raise`): they change nothing, for
\* any utilization.
ReadUtilLine(lines, max) ==
    /\ pc = "read_util"
    /\ nLines < max
    /\ \E line \in lines :
          LET start_ms == RoundMs(line.start_ns)
              end_ms == RoundMs(line.end_ns)
              keys == BucketKeys(line.src, line.dst, start_ms, end_ms, 0)
          IN  /\ val' = [src |-> line.src, dst |-> line.dst,
                         start_ms |-> start_ms, end_ms |-> end_ms]
              /\ utilization' = line.utilization
              /\ time_wise_util' =
                    Store(time_wise_util, keys, line.utilization)
              /\ stored' = keys
    /\ UNCHANGED <<pc, err>>
    /\ nLines' = nLines + 1
    /\ UNCHANGED <<GEN_TIME, paths_over_time, SEL_PATH_TIME, SEL_PATH, p, enc,
                   viz_string, OUT_HTML_FILE, written>>

\* Lines 181-205 after the last line of IN_UTIL_FILE: the markers and orbit
\* links of the collaborators; the path loop starts at p = 0.
EndUtilFile ==
    /\ pc = "read_util"
    /\ pc' = "render"
    /\ p' = 0
    /\ UNCHANGED <<err, GEN_TIME, paths_over_time, SEL_PATH_TIME, SEL_PATH,
                   time_wise_util, val, stored, nLines, utilization, enc,
                   viz_string, OUT_HTML_FILE, written>>

\* The globals at line 165 of a run whose path_file held the one line
\* 0,GsA-SatA-SatB-GsB.
InitIngest ==
    LET pot == WithSentinel(<< <<0, <<GsA, SatA, SatB, GsB>> >> >>)
    IN  /\ pc = "read_util"
        /\ err = ""
        /\ GEN_TIME \in QueryTimes
        /\ paths_over_time = pot
        /\ SEL_PATH_TIME = ResolveFrom(pot, GEN_TIME, 0).time
        /\ SEL_PATH = ResolveFrom(pot, GEN_TIME, 0).path
        /\ time_wise_util = EmptyUtil
        /\ val = NoLine
        /\ stored = <<>>
        /\ nLines = 0
        /\ p = 0
        /\ utilization = 0
        /\ enc = NoEnc
        /\ viz_string = <<>>
        /\ OUT_HTML_FILE = <<>>
        /\ written = FALSE

NextIngest ==
    \/ ReadUtilLine(Samples(SampleStartsNs, SampleEndsNs, SampleUtils),
                    MaxSamples)
    \/ EndUtilFile

\* Lines 165-179 alone, over every IN_UTIL_FILE of the bounds.
IngestSpec == InitIngest /\ [][NextIngest]_vars

\* ----------------------------------------------------------------- encoder

\* Line 220: 1 + 5 * utilization, times UDen.
LinkWidth(u) == UDen + 5 * u

\* Line 221.
UpperHalf(u) == 2 * u >= UDen

\* Lines 222 and 226.
RedWeight(u) ==
    IF UpperHalf(u) THEN 255
    ELSE 255 - RoundHalfEven(255 * (UDen - 2 * u), UDen)

\* GreenWeight without the division by 0.5.
GreenWeight_NoHalf(u) ==
    IF UpperHalf(u) THEN 0 + RoundHalfEven(255 * (UDen - u), UDen)
    ELSE 255

\* Lines 223 and 225.
GreenWeight(u) ==
    IF UpperHalf(u) THEN 0 + RoundHalfEven(510 * (UDen - u), UDen)
    ELSE 255

HexChars ==
    <<"0", "1", "2", "3", "4", "5", "6", "7", "8", "9",
      "a", "b", "c", "d", "e", "f">>

RECURSIVE HexStr(_)
\* The hexadecimal digits of n >= 0.
HexStr(n) ==
    IF n < 16 THEN <<HexChars[n + 1]>>
    ELSE HexStr(n \div 16) \o <<HexChars[(n % 16) + 1]>>

\* '%02x' % n: sign, digits, zero-padded to two characters.
Format02x(n) ==
    LET s == IF n < 0 THEN <<"-">> \o HexStr(-n) ELSE HexStr(n)
    IN  IF Len(s) < 2 THEN <<"0">> \o s ELSE s

\* Line 227.
HexCol(red_weight, green_weight) ==
    Format02x(red_weight) \o Format02x(green_weight) \o Format02x(0)

\* Lines 220-227.
Encode(u) ==
    [link_width |-> LinkWidth(u), red_weight |-> RedWeight(u),
     green_weight |-> GreenWeight(u),
     hex_col |-> HexCol(RedWeight(u), GreenWeight(u))]

\* Lines 220-227 on the utilization at hand.
EncodeStep ==
    /\ pc = "encode"
    /\ enc' = Encode(utilization)
    /\ pc' = "encoded"
    /\ UNCHANGED <<err, GEN_TIME, paths_over_time, SEL_PATH_TIME, SEL_PATH,
                   time_wise_util, val, stored, nLines, p, utilization,
                   viz_string, OUT_HTML_FILE, written>>

\* Line 220 reached with a utilization of UtilGrid.
InitEnc ==
    /\ pc = "encode"
    /\ err = ""
    /\ GEN_TIME = 0
    /\ paths_over_time = <<>>
    /\ SEL_PATH_TIME = 0
    /\ SEL_PATH = <<>>
    /\ time_wise_util = EmptyUtil
    /\ val = NoLine
    /\ stored = <<>>
    /\ nLines = 0
    /\ p = 0
    /\ utilization \in UtilGrid
    /\ enc = NoEnc
    /\ viz_string = <<>>
    /\ OUT_HTML_FILE = <<>>
    /\ written = FALSE

\* The encoder alone, over UtilGrid.
EncSpec == InitEnc /\ [][EncodeStep]_vars

\* ----------------------------------------------------------- render phase

\* Rendered up to the hop before the last node.
Rendered_ToLastHop(pos, len) == 0 < pos /\ pos < len - 1

\* Line 211.
Rendered(pos, len) == 0 < pos /\ pos < len - 2

\* WindowKey for the window that starts at the query time.
WindowKey_Forward(a, b, q) == <<a, b, q, q + UTIL_INTERVAL>>

\* Lines 215-216: the window looked up for a hop.
WindowKey(a, b, q) == <<a, b, q - UTIL_INTERVAL, q>>

\* Lookup with a default of 0 for a missing key.
Lookup_Default(twu, k1, k2) ==
    [found |-> TRUE,
     util_1 |-> IF k1 \in DOMAIN twu THEN twu[k1] ELSE 0,
     util_2 |-> IF k2 \in DOMAIN twu THEN twu[k2] ELSE 0]

\* Lines 215-216: both directions' values; either key missing raises
\* KeyError.
Lookup(twu, k1, k2) ==
    IF k1 \in DOMAIN twu /\ k2 \in DOMAIN twu
    THEN [found |-> TRUE, util_1 |-> twu[k1], util_2 |-> twu[k2]]
    ELSE [found |-> FALSE, util_1 |-> 0, util_2 |-> 0]

\* DirectionalMax keeping the first direction.
DirectionalMax_FirstOnly(util_1, util_2) == util_1

\* Lines 217-219.
DirectionalMax(util_1, util_2) == IF util_2 > util_1 THEN util_2 ELSE util_1

\* Lines 207-210: the ground-station part of the output name.
GsPart(pos, path) ==
    IF pos = 0 \/ pos = Len(path) - 1 THEN <<At(path, pos)>> ELSE <<>>

\* Lines 206-239: one iteration of the path loop.  A missing key at line 215
\* or 216 raises KeyError out of generate_utilization_at_time.
RenderStep ==
    /\ pc = "render"
    /\ p < Len(SEL_PATH)
    /\ OUT_HTML_FILE' = OUT_HTML_FILE \o GsPart(p, SEL_PATH)
    /\ IF Rendered(p, Len(SEL_PATH))
       THEN LET sat1 == At(SEL_PATH, p)
                sat2 == At(SEL_PATH, p + 1)
                got == Lookup(time_wise_util,
                              WindowKey(sat1, sat2, GEN_TIME),
                              WindowKey(sat2, sat1, GEN_TIME))
            IN  IF got.found
                THEN LET u == DirectionalMax(got.util_1, got.util_2)
                     IN  /\ utilization' = u
                         /\ enc' = Encode(u)
                         /\ viz_string' = Append(viz_string,
                                [sat1 |-> sat1, sat2 |-> sat2,
                                 width |-> Encode(u).link_width,
                                 color |-> Encode(u).hex_col])
                         /\ p' = p + 1
                         /\ UNCHANGED <<pc, err>>
                ELSE /\ pc' = "error"
                     /\ err' = "KeyError"
                     /\ UNCHANGED <<utilization, enc, viz_string, p>>
       ELSE /\ p' = p + 1
            /\ UNCHANGED <<pc, err, utilization, enc, viz_string>>
    /\ UNCHANGED <<GEN_TIME, paths_over_time, SEL_PATH_TIME, SEL_PATH,
                   time_wise_util, val, stored, nLines, written>>

\* Lines 241-242: the loop is over; the name gets GEN_TIME and the scene is
\* returned to line 257.
Return ==
    /\ pc = "render"
    /\ p >= Len(SEL_PATH)
    /\ OUT_HTML_FILE' = Append(OUT_HTML_FILE, GEN_TIME)
    /\ pc' = "write"
    /\ UNCHANGED <<err, GEN_TIME, paths_over_time, SEL_PATH_TIME, SEL_PATH,
                   time_wise_util, val, stored, nLines, p, utilization, enc,
                   viz_string, written>>

\* Line 258.
WriteVizFiles ==
    /\ pc = "write"
    /\ written' = TRUE
    /\ pc' = "done"
    /\ UNCHANGED <<err, GEN_TIME, paths_over_time, SEL_PATH_TIME, SEL_PATH,
                   time_wise_util, val, stored, nLines, p, utilization, enc,
                   viz_string, OUT_HTML_FILE>>

Next ==
    \/ ReadPathLine(RunPathTimesNs, Paths, RunMaxEvents)
    \/ EndPathFile
    \/ ReadUtilLine(Samples(RunSampleStartsNs, RunSampleEndsNs,
                            RunSampleUtils), RunMaxSamples)
    \/ EndUtilFile
    \/ RenderStep
    \/ Return
    \/ WriteVizFiles

\* A whole run, lines 257-258.
Spec == Init /\ [][Next]_vars

\* ============================================================ properties

\* ---------------------------------------------------------- path timeline

\* The lines read from path_file: paths_over_time without line 148's entry.
Events == SubSeq(paths_over_time, 1, Len(paths_over_time) - 1)

Resolved == pc = "read_util" /\ Len(paths_over_time) >= 2

Ascending(ev) ==
    \A i, j \in DOMAIN ev : i < j => ev[i][1] <= ev[j][1]

\* Event i's validity interval [start_ms(i), start_ms(i+1)) holds q; the
\* last event's interval has no upper end.
InInterval(ev, i, q) ==
    /\ RoundMs(ev[i][1]) <= q
    /\ i < Len(ev) => q < RoundMs(ev[i + 1][1])

\* C3: for a non-empty path_file with ascending change times and a query
\* time GEN_TIME with start_ms(first event) <= GEN_TIME < far future, the
\* resolved path is the path of the event whose validity interval
\* [start_ms(i), start_ms(i+1)) holds GEN_TIME, the last event's interval
\* being unbounded above.
C3_ResolvedPathIsActiveEvent ==
    (/\ Resolved
     /\ Ascending(Events)
     /\ RoundMs(Events[1][1]) <= GEN_TIME
     /\ GEN_TIME < FarFuture)
    => /\ \E i \in DOMAIN Events : InInterval(Events, i, GEN_TIME)
       /\ \A i \in DOMAIN Events :
             InInterval(Events, i, GEN_TIME) => SEL_PATH = Events[i][2]

\* C3's case: two events with different paths, the first at 99.5 ms (100 ms
\* after rounding), the second later; the query at 100 ms resolved to the
\* first event's path.
C3_Witness ==
    /\ Resolved
    /\ Len(Events) = 2
    /\ Events[1][1] = 99500000
    /\ Events[2][1] = 150500000
    /\ Events[1][2] # Events[2][2]
    /\ GEN_TIME = 100
    /\ SEL_PATH = Events[1][2]

\* C4: whenever no event's validity interval covers the query time (as when
\* GEN_TIME is earlier than every change time read), resolution raises no
\* error and yields the empty path and selected path time 0.
C4_EmptyPathFallback ==
    (/\ Resolved
     /\ \A i \in DOMAIN Events : ~InInterval(Events, i, GEN_TIME))
    => /\ err = ""
       /\ SEL_PATH = <<>>
       /\ SEL_PATH_TIME = 0

\* ------------------------------------------------------ utilization index

LineRead == val # NoLine /\ pc = "read_util"

Span == val.end_ms - val.start_ms

\* C1: ingestion aborts as soon as it reads a sample whose utilization is
\* greater than 1.0: the run is in an error state, no bucket of that sample
\* is stored and no scene is written.
C1_OverUtilizationAborts ==
    (val # NoLine /\ utilization > UDen)
    => /\ pc = "error"
       /\ stored = <<>>
       /\ ~written

C7_BucketsContiguous ==
    LineRead
    => /\ \A i \in DOMAIN stored :
             /\ stored[i][1] = val.src
             /\ stored[i][2] = val.dst
             /\ stored[i][3] = IF i = 1 THEN val.start_ms ELSE stored[i - 1][4]
             /\ stored[i][4] = stored[i][3] + UTIL_INTERVAL
             /\ stored[i] \in DOMAIN time_wise_util
             /\ time_wise_util[stored[i]] = utilization
       /\ (val.start_ms = 0 /\ val.end_ms = 300)
             => stored = << <<val.src, val.dst, 0, 100>>,
                            <<val.src, val.dst, 100, 200>>,
                            <<val.src, val.dst, 200, 300>> >>

\* C7's case: a sample from 0 ms to 300 ms was ingested after another one
\* and stored three buckets.
C7_Witness ==
    /\ LineRead
    /\ nLines = 2
    /\ val.start_ms = 0
    /\ val.end_ms = 300
    /\ Len(stored) = 3

\* --------------------------------------------------------------- renderer

Ended == pc \in {"done", "error"}

\* The window of the hop a -> b at the query time.
Window(a, b) == <<a, b, GEN_TIME - UTIL_INTERVAL, GEN_TIME>>

\* The globals of the run of the end-to-end scenario at query time q: the
\* log lines (SatA,SatB,0,200 ms,0.8) and (SatB,SatA,0,200 ms,0.3), the
\* path event (0, [GsA,SatA,SatB,GsB]).
Scenario(q) ==
    /\ GEN_TIME = q
    /\ paths_over_time = << <<0, <<GsA, SatA, SatB, GsB>> >>,
                            <<0, <<GsA, SatA, SatB, GsB>> >> >>
    /\ DOMAIN time_wise_util =
          { <<SatA, SatB, 0, 100>>, <<SatA, SatB, 100, 200>>,
            <<SatB, SatA, 0, 100>>, <<SatB, SatA, 100, 200>> }
    /\ \A k \in DOMAIN time_wise_util :
          time_wise_util[k] = IF k[1] = SatA THEN U(8, 10) ELSE U(3, 10)

\* The scene of the scenario: the hop (SatA, SatB) with utilization 0.8,
\* width 5.0, red channel 255.
ScenarioScene ==
    /\ SEL_PATH = <<GsA, SatA, SatB, GsB>>
    /\ Len(viz_string) = 1
    /\ viz_string[1].sat1 = SatA
    /\ viz_string[1].sat2 = SatB
    /\ viz_string[1].width = 5 * UDen
    /\ SubSeq(viz_string[1].color, 1, 2) = <<"f", "f">>
    /\ utilization = U(8, 10)
    /\ enc.red_weight = 255

Handled(pos) == pc \in {"render", "write", "done"} /\ pos < p

BothStored(a, b) ==
    /\ Window(a, b) \in DOMAIN time_wise_util
    /\ Window(b, a) \in DOMAIN time_wise_util

Max(a, b) == IF a >= b THEN a ELSE b

Encoded == pc = "encoded"

\* C9: encode(0.0) is 00ff00 with width 1.0, encode(1.0) is ff0000 with
\* width 6.0, encode(0.5) is ffff00 with width 3.5; for every utilization
\* in [0,1] of the grid the blue channel is 0, red and green are integers
\* in [0,255], red = 255 when u >= 0.5, green = 255 when u < 0.5, and the
\* width 1 + 5u lies in [1,6].
C9_EncoderRamp ==
    Encoded
    => /\ utilization = 0
            => /\ enc.hex_col = <<"0", "0", "f", "f", "0", "0">>
               /\ enc.link_width = UDen
       /\ utilization = UDen
            => /\ enc.hex_col = <<"f", "f", "0", "0", "0", "0">>
               /\ enc.link_width = 6 * UDen
       /\ 2 * utilization = UDen
            => /\ enc.hex_col = <<"f", "f", "f", "f", "0", "0">>
               /\ 2 * enc.link_width = 7 * UDen
       /\ utilization <= UDen
            => /\ Len(enc.hex_col) = 6
               /\ SubSeq(enc.hex_col, 5, 6) = <<"0", "0">>
               /\ enc.red_weight \in 0..255
               /\ enc.green_weight \in 0..255
               /\ 2 * utilization >= UDen => enc.red_weight = 255
               /\ 2 * utilization < UDen => enc.green_weight = 255
               /\ enc.link_width = UDen + 5 * utilization
               /\ enc.link_width >= UDen
               /\ enc.link_width <= 6 * UDen
               /\ enc.hex_col = Format02x(enc.red_weight)
                                   \o Format02x(enc.green_weight)
                                   \o <<"0", "0">>

\* C9's case: the encoder ran on 0.25, where 127.5 rounds to the even 128:
\* red 127, green 255, colour 7fff00.
C9_Witness ==
    /\ Encoded
    /\ 4 * utilization = UDen
    /\ enc.hex_col = <<"7", "f", "f", "f", "0", "0">>

====
